---- MODULE Spec2Model ----
(***************************************************************************)
(* TODOIT: focus-session phase machine, wall-clock timer, session summary  *)
(* and optimistic task-completion synchronisation.                         *)
(*                                                                         *)
(* Sources: Components/StartButton.jsx (StartButton), unnamed/part_006     *)
(* (Task), unnamed/part_004 (Accomplishment), unnamed/part_009             *)
(* (SessionStateProvider), unnamed/part_010 (TimerProvider),               *)
(* hooks/useStatus.tsx (StatusProvider), hooks/useActiveList.tsx,          *)
(* hooks/useToggleComplete.ts and unnamed/part_000 (useToggleComplete),    *)
(* hooks/useTasksApi.ts (the ['tasks', listId] queries), googleToken.ts    *)
(* (getAccessTokenOrThrow), unnamed/part_007 (App: the provider tree).     *)
(*                                                                         *)
(* Execution model: single-threaded and event driven.  One action is one   *)
(* event handler together with the React render and the effects that       *)
(* follow it.  Time is the wall clock `clock`; the provider's `nowMs` is    *)
(* the copy of it taken at the last refresh.  Durations are scaled down    *)
(* (DurationSteps * StepMs instead of 25 minutes).                         *)
(*                                                                         *)
(* Spec is the whole application with at most MaxPending toggles unsettled *)
(* at a time, on a device where notifications are not permitted (schedule() *)
(* then answers {ok: false} and leaves nothing behind); SpecSync is the     *)
(* synchroniser under MaxPendingSync concurrent toggles in a session the   *)
(* user only works the checkboxes of; SpecNotif is the timer engine with   *)
(* its notification where notifications are permitted; SpecPrompt is the   *)
(* checkboxes and the 'Yes!' button calling the synchroniser side by side; *)
(* SpecToken is the access-token source (googleToken) under concurrent     *)
(* callers; SpecLive is Spec with the fairness the platform provides.      *)
(***************************************************************************)
EXTENDS Integers, Sequences, FiniteSets, TLC

(* ------------------------------ bounds -------------------------------- *)
StepMs == 500
DurationSteps == 2
MaxClockSteps == 3
MaxAlerts == 2
MaxCompleted == 2
MaxPending == 1
MaxPendingSync == 2
MaxScheduling == 2
MaxNotifs == 3
MaxTokenCalls == 3

(* ----------------------------- constants ------------------------------ *)
IDLE == "IDLE"
RUNNING == "RUNNING"
ACCOMPLISHMENT == "ACCOMPLISHMENT"
Null == "null"
\* startTime / targetTime of a timer that is not set (null in the source)
NoTime == 0 - 1
\* scheduledNotifIdRef holding no id (null in the source); ids count from 1
NoNotif == 0

\* inFlight holding no promise (null in the source); call ids count from 1
NoCall == 0
\* code that calls getAccessTokenOrThrow on its own schedule: the queryFn of
\* the task list and the mutationFn of two toggles
TokenCallers == {"queryFn", "toggle1", "toggle2"}
\* a caller that is not inside getAccessTokenOrThrow
Outside == [pc |-> "out", call |-> NoCall, result |-> "none"]

Tasks == {"A", "B"}
RealLists == {"L1"}
ListIds == RealLists \cup {Null}
NeedsAction == "needsAction"
Completed == "completed"

durationInMs == DurationSteps * StepMs
\* useState(null) of ActiveListProvider; no source file calls setActiveList.
\* (useActiveList is taken to hand the context value to its caller.)
activeList == Null
MaxClock == MaxClockSteps * StepMs

VARIABLES
  status,               \* StatusProvider: [status, highlightedTaskId]
  startTime,            \* TimerProvider state
  targetTime,
  timerActive,
  nowMs,
  clock,                \* Date.now()
  tasksCompleted,       \* SessionStateProvider
  completedTimeString,
  handledTimerEndRef,   \* StartButton re-entrancy latch
  memoHl,               \* highlightedTaskId captured by the memoised prompt callbacks
  alerts,               \* Alert.alert dialogs requested and not yet answered
  shownCount,           \* how many of them the platform has presented
  cache,                \* query cache: ['tasks', listId] -> entry
  server,               \* remote task store: status of each task of list L1
  fetchState,           \* the ['tasks', L1] query's fetch: idle / sent / resp
  fetchData,
  mutations,            \* toggle mutations that have not settled
  permissionStatus,     \* NotificationProvider: unknown / granted / denied
  scheduledNotifIdRef,  \* TimerProvider: id of the notification of the set timer
  scheduling,           \* schedule() calls of setTimer that have not returned
  notifs,               \* notifications the OS holds for a time yet to come
  timerEndRuns,         \* history: runs of the timer-expiry branch this session
  expiredTicks,         \* history: refreshes this session that saw remaining.ms <= 0
  inFlight,             \* googleToken: the shared promise (the id of its getTokens call)
  getTokensCalls,       \* GoogleSignin.getTokens() calls that have not settled
  tokenCallers,         \* callers of getAccessTokenOrThrow: where each one stands
  tokenCallCount        \* getTokens calls made so far (the next call's id - 1)

timerVars == <<startTime, targetTime, timerActive, nowMs>>
summaryVars == <<tasksCompleted, completedTimeString>>
alertVars == <<alerts, shownCount>>
syncVars == <<cache, server, fetchState, fetchData, mutations>>
notifVars == <<permissionStatus, scheduledNotifIdRef, scheduling, notifs>>
histVars == <<timerEndRuns, expiredTicks>>
sessionVars == <<status, timerVars, notifVars, summaryVars, handledTimerEndRef, memoHl,
                 alertVars, histVars>>
tokenVars == <<inFlight, getTokensCalls, tokenCallers, tokenCallCount>>
appVars == <<sessionVars, clock, syncVars>>
vars == <<status, timerVars, notifVars, clock, summaryVars, handledTimerEndRef, memoHl,
          alertVars, syncVars, histVars, tokenVars>>

(* ------------------------- TimerProvider -------------------------------- *)
Max(a, b) == IF a > b THEN a ELSE b

Pad2(n) == IF n < 10 THEN "0" \o ToString(n) ELSE ToString(n)

formatTime(minutes, seconds) == Pad2(minutes) \o ":" \o Pad2(seconds)

\* makeTimeObject with the display fields taken from the raw ms
makeTimeObjectUnclamped(ms) ==
  LET minutes == ms \div 60000
      seconds == (ms % 60000) \div 1000
  IN [ms |-> ms, minutes |-> minutes, seconds |-> seconds,
      timeString |-> formatTime(minutes, seconds)]

makeTimeObject(ms) ==
  LET safeMs == Max(0, ms)
      minutes == safeMs \div 60000
      seconds == (safeMs % 60000) \div 1000
  IN [ms |-> ms, minutes |-> minutes, seconds |-> seconds,
      timeString |-> formatTime(minutes, seconds)]

\* the useMemo snapshot for given state values
timerSnapshot(now, start, target) ==
  [remaining |-> makeTimeObject(IF target = NoTime THEN -1 ELSE target - now),
   elapsed   |-> makeTimeObject(IF start = NoTime THEN -1 ELSE now - start)]

timer == timerSnapshot(nowMs, startTime, targetTime)

\* `if (scheduledNotifIdRef.current) { void cancelScheduled(...); ... = null }`:
\* the notifications the OS still holds once the one the ref names is
\* cancelled.  (The cancellation is taken to reach the OS at once.)
cancelScheduled(id) == {n \in notifs : n.id # id}

\* a schedule() call of setTimer on its way: its trigger date, how far it has
\* got ("prep": guardAndPrepare, "os": the OS has taken the request) and the
\* notification id the OS gave it (none until then)
ScheduleRec(target) == [target |-> target, stage |-> "prep", id |-> NoNotif]

\* schedule(payload, {at: target}) as setTimer starts it.  Without the
\* permission guardAndPrepare answers {ok: false}: setTimer logs a warning and
\* nothing else follows from the call.
schedule(target) ==
  IF permissionStatus = "granted"
    THEN Append(scheduling, ScheduleRec(target))
    ELSE scheduling

setTimer ==
  /\ notifs' = cancelScheduled(scheduledNotifIdRef)
  /\ scheduledNotifIdRef' = NoNotif
  /\ startTime' = clock
  /\ targetTime' = clock + durationInMs
  /\ timerActive' = TRUE
  /\ nowMs' = clock
  /\ scheduling' = schedule(clock + durationInMs)
  /\ UNCHANGED permissionStatus

\* clearTimer without its setStartTime(null)
clearTimerKeepsStart ==
  /\ notifs' = cancelScheduled(scheduledNotifIdRef)
  /\ scheduledNotifIdRef' = NoNotif
  /\ targetTime' = NoTime
  /\ startTime' = startTime
  /\ timerActive' = FALSE
  /\ nowMs' = clock
  /\ UNCHANGED <<permissionStatus, scheduling>>

clearTimer ==
  /\ notifs' = cancelScheduled(scheduledNotifIdRef)
  /\ scheduledNotifIdRef' = NoNotif
  /\ targetTime' = NoTime
  /\ startTime' = NoTime
  /\ timerActive' = FALSE
  /\ nowMs' = clock
  /\ UNCHANGED <<permissionStatus, scheduling>>

\* notification ids the OS can hand out: those no notification it holds, no
\* call on its way and not the ref carries
FreeIds ==
  (1..MaxNotifs) \ ({n.id : n \in notifs}
                     \cup {scheduling[i].id : i \in DOMAIN scheduling}
                     \cup {scheduledNotifIdRef})

(* --------------------------- query cache -------------------------------- *)
Absent == [present |-> FALSE, items |-> {}]
Entry(items) == [present |-> TRUE, items |-> items]

\* listTasks(token, listId, {showCompleted: false})
listTasks(srv) == {[id |-> t, status |-> NeedsAction] : t \in {u \in Tasks : srv[u] = NeedsAction}}

StatusOf(completed) == IF completed THEN Completed ELSE NeedsAction

\* the setQueryData updater of onMutate: (old = []) => old.map(...)
optimisticUpdate(entry, taskId, completed) ==
  LET old == IF entry.present THEN entry.items ELSE {}
  IN Entry({IF t.id = taskId THEN [t EXCEPT !.status = StatusOf(completed)] ELSE t : t \in old})

\* anyTasksLoading: the query has no data and no error yet and is fetching
dataBooting == ~cache["L1"].present /\ fetchState # "idle"

\* what the Task components of list L1 are rendered from
Rendered(t) == cache["L1"].present /\ \E r \in cache["L1"].items : r.id = t
taskStatus(t) == (CHOOSE r \in cache["L1"].items : r.id = t).status

Range(s) == {s[i] : i \in DOMAIN s}
RemoveAt(s, i) == SubSeq(s, 1, i - 1) \o SubSeq(s, i + 1, Len(s))

\* useMutation().isPending of the Task component of task t
isPending(t) == \E m \in Range(mutations) : m.src = "task" /\ m.task = t

StatusRec(s, hl) == [status |-> s, highlightedTaskId |-> hl]

(* ------------------------ SessionStateProvider -------------------------- *)
incrementTasksCompleted(num, inc) == num + inc
resetTasksCompleted == 0

(* ------------------------------ Task ------------------------------------ *)
isChecked(id) == taskStatus(id) = Completed

\* a Task whose controls are never disabled
disabledNever(id) == FALSE

disabled(id) ==
  /\ status.status = RUNNING
  /\ status.highlightedTaskId # Null
  /\ status.highlightedTaskId # id

highlighted(id) ==
  /\ status.status = RUNNING
  /\ status.highlightedTaskId # Null
  /\ status.highlightedTaskId = id

canShowCheckbox(id) ==
  /\ status.status = RUNNING
  /\ (status.highlightedTaskId = Null \/ status.highlightedTaskId = id)

canToggleCompletion(id) ==
  canShowCheckbox(id) /\ ~disabled(id) /\ ~isPending(id)

(* ----------------- alerts, renders and memoised callbacks --------------- *)
\* Alert.alert only requests a native dialog.  The platform presents it a
\* moment later; from then on it is modal and the newest presented dialog is
\* the one the user can answer.  Until it is presented, touches still reach
\* the screen below.  The Accomplishment modal covers the screen, and the
\* splash screen stands in for it until the first load has ended.  The
\* permission request made on mount is answered before the user gets to the
\* buttons: from the stored setting at once, or by the system dialog that
\* covers the application.
UIEnabled ==
  /\ ~dataBooting
  /\ permissionStatus # "unknown"
  /\ shownCount = 0
  /\ status.status # ACCOMPLISHMENT
CanAnswer == shownCount >= 1
TopAlert == alerts[shownCount]
AlertsAfterAnswer == RemoveAt(alerts, shownCount)

\* An alert's buttons close over the render in which it was requested:
\* hl = status.highlightedTaskId, ts = timer.elapsed.timeString and
\* tc = tasksCompleted as promptEndSession / promptDidYouComplete /
\* finishSession saw them.
AlertRec(kind, hl, ts, tc) == [kind |-> kind, hl |-> hl, ts |-> ts, tc |-> tc]
TaskAlert == AlertRec("TaskEndSession", Null, "", 0)

\* promptEndSession and promptDidYouComplete are useCallback(..., [finishSession]):
\* they are rebuilt only when finishSession is, i.e. when timer.elapsed,
\* clearTimer or tasksCompleted changed.  TimerProvider sits above
\* StatusProvider (App), so a render caused by setStatus alone leaves
\* timer.elapsed and clearTimer as they were and the callbacks keep the
\* status of the render that built them.
MemoNext(rebuilt, hl) == IF rebuilt THEN hl ELSE memoHl

(* --------------------------- useToggleComplete -------------------------- *)
\* a toggle whose patch is on its way from the moment mutate() is called
MutationRecPatchFirst(list, task, completed, prev, src) ==
  [list |-> list, task |-> task, completed |-> completed, prev |-> prev,
   stage |-> "patch", src |-> src, overtaken |-> FALSE]

\* an unsettled toggle: its variables, its onMutate context (prev), how far its
\* mutationFn has got, and the useMutation instance it belongs to.  overtaken
\* is history: a later toggle on the same task has settled, and so triggered
\* its invalidation, while this one was still unsettled.
MutationRec(list, task, completed, prev, src) ==
  [list |-> list, task |-> task, completed |-> completed, prev |-> prev,
   stage |-> "token", src |-> src, overtaken |-> FALSE]

\* the unsettled toggles once toggle j has settled
AfterSettle(j) ==
  RemoveAt([i \in DOMAIN mutations |->
              IF i < j /\ mutations[i].task = mutations[j].task
                THEN [mutations[i] EXCEPT !.overtaken = TRUE]
                ELSE mutations[i]], j)

\* qc.cancelQueries, then the body of onMutate
cancelQueries(list) ==
  IF list \in RealLists
    THEN fetchState' = "idle" /\ fetchData' = {}
    ELSE UNCHANGED <<fetchState, fetchData>>

onMutate(list, task, completed, src) ==
  /\ cancelQueries(list)
  /\ cache' = [cache EXCEPT ![list] = optimisticUpdate(cache[list], task, completed)]
  /\ mutations' = Append(mutations, MutationRec(list, task, completed, cache[list], src))
  /\ UNCHANGED server

\* onError that leaves the optimistic write in the cache
onErrorKeepsWrite(c, m) == c

\* onError: if (ctx?.prev) qc.setQueryData(key, ctx.prev)
onError(c, m) == IF m.prev.present THEN [c EXCEPT ![m.list] = m.prev] ELSE c

\* onSettled without its invalidateQueries
onSettledNoInvalidate(list) == UNCHANGED <<fetchState, fetchData>>

\* onSettled: qc.invalidateQueries; only a list with a mounted query refetches
onSettled(list) ==
  IF list \in RealLists
    THEN fetchState' = "sent" /\ fetchData' = {}
    ELSE UNCHANGED <<fetchState, fetchData>>

(* ----------------------------- StartButton ------------------------------ *)
\* the timer-completion effect without its re-entrancy latch
TimerEndedNoLatch(active, remainingMs, handled) ==
  active /\ ~(remainingMs > 0)

\* the timer-completion effect taking only a negative reading as expired
TimerEndedStrict(active, remainingMs, handled) ==
  active /\ remainingMs < 0 /\ ~handled

\* lines 132-134 of the timer-completion effect
TimerEnded(active, remainingMs, handled) ==
  active /\ ~(remainingMs > 0) /\ ~handled

\* finishSession's rule for the next phase
NextPhase(tc) == IF tc > 0 THEN ACCOMPLISHMENT ELSE IDLE

\* finishSession as the closure that captured (ts, tc), followed by the render
\* and the latch-reset effect.  clearTimer gives TimerProvider new state
\* (setNowMs(Date.now()) at the least), so the prompt callbacks are rebuilt.
finishSession(ts, tc) ==
  /\ clearTimer
  /\ completedTimeString' = IF tc > 0 THEN ts ELSE completedTimeString
  /\ status' = StatusRec(NextPhase(tc), Null)
  /\ handledTimerEndRef' = IF timerActive THEN FALSE ELSE handledTimerEndRef
  /\ memoHl' = MemoNext(TRUE, Null)

(* ============================== actions ================================= *)
Init ==
  /\ status = StatusRec(IDLE, Null)
  /\ startTime = NoTime
  /\ targetTime = NoTime
  /\ timerActive = FALSE
  /\ nowMs = 0
  /\ clock = 0
  /\ tasksCompleted = 0
  /\ completedTimeString = ""
  /\ handledTimerEndRef = FALSE
  /\ memoHl = Null
  /\ alerts = <<>>
  /\ shownCount = 0
  /\ cache = [l \in ListIds |-> Absent]
  /\ server = [t \in Tasks |-> NeedsAction]
  /\ fetchState = "sent"
  /\ fetchData = {}
  /\ mutations = <<>>
  /\ permissionStatus = "unknown"
  /\ scheduledNotifIdRef = NoNotif
  /\ scheduling = <<>>
  /\ notifs = {}
  /\ timerEndRuns = 0
  /\ expiredTicks = 0
  /\ inFlight = NoCall
  /\ getTokensCalls = {}
  /\ tokenCallers = [c \in TokenCallers |-> Outside]
  /\ tokenCallCount = 0

\* the wall clock moves on.  Only a set timer reads it against an earlier
\* reading; setTimer and clearTimer of an idle timer take it as their origin,
\* so time that passes while no timer is active is not tracked.
\* The OS delivers a notification when its date comes; it is pending no more.
AdvanceClock ==
  /\ timerActive
  /\ clock < MaxClock
  /\ clock' = clock + StepMs
  /\ notifs' = {n \in notifs : n.target > clock'}
  /\ UNCHANGED <<status, timerVars, permissionStatus, scheduledNotifIdRef, scheduling,
                 summaryVars, handledTimerEndRef, memoHl, alertVars, histVars, syncVars>>
  /\ UNCHANGED tokenVars

(* ------------------------- NotificationProvider ------------------------- *)
\* the mount effect's ensureReady -> requestPermission resolves 'granted'
PermissionGranted ==
  /\ permissionStatus = "unknown"
  /\ permissionStatus' = "granted"
  /\ UNCHANGED <<status, timerVars, scheduledNotifIdRef, scheduling, notifs, clock,
                 summaryVars, handledTimerEndRef, memoHl, alertVars, histVars, syncVars>>
  /\ UNCHANGED tokenVars

\* ... or 'denied' (refused, or the request failed)
PermissionDenied ==
  /\ permissionStatus = "unknown"
  /\ permissionStatus' = "denied"
  /\ UNCHANGED <<status, timerVars, scheduledNotifIdRef, scheduling, notifs, clock,
                 summaryVars, handledTimerEndRef, memoHl, alertVars, histVars, syncVars>>
  /\ UNCHANGED tokenVars

\* Notifications.scheduleNotificationAsync of call i reaches the OS: the
\* notification is pending from now on, unless its date has come already
OsSchedule(i) ==
  /\ scheduling[i].stage = "prep"
  /\ FreeIds # {}
  /\ LET id == CHOOSE k \in FreeIds : \A j \in FreeIds : k <= j
         target == scheduling[i].target
     IN /\ scheduling' = [scheduling EXCEPT ![i].stage = "os", ![i].id = id]
        /\ notifs' = IF target > clock
                       THEN notifs \cup {[id |-> id, target |-> target]}
                       ELSE notifs
  /\ UNCHANGED <<status, timerVars, permissionStatus, scheduledNotifIdRef, clock,
                 summaryVars, handledTimerEndRef, memoHl, alertVars, histVars, syncVars>>
  /\ UNCHANGED tokenVars

\* schedule() of call i returns {ok: true, notificationId}: setTimer's async
\* block stores the id in the ref
ScheduleReturn(i) ==
  /\ scheduling[i].stage = "os"
  /\ scheduledNotifIdRef' = scheduling[i].id
  /\ scheduling' = RemoveAt(scheduling, i)
  /\ UNCHANGED <<status, timerVars, permissionStatus, notifs, clock,
                 summaryVars, handledTimerEndRef, memoHl, alertVars, histVars, syncVars>>
  /\ UNCHANGED tokenVars

\* schedule() of call i returns {ok: false} (the channel could not be ensured,
\* or scheduleNotificationAsync threw): a warning is logged
ScheduleFail(i) ==
  /\ scheduling[i].stage = "prep"
  /\ scheduling' = RemoveAt(scheduling, i)
  /\ UNCHANGED <<status, timerVars, permissionStatus, scheduledNotifIdRef, notifs, clock,
                 summaryVars, handledTimerEndRef, memoHl, alertVars, histVars, syncVars>>
  /\ UNCHANGED tokenVars

\* the platform presents the oldest requested dialog not yet presented
ShowAlert ==
  /\ shownCount < Len(alerts)
  /\ shownCount' = shownCount + 1
  /\ UNCHANGED <<status, timerVars, notifVars, clock, summaryVars, handledTimerEndRef,
                 memoHl, alerts, syncVars, histVars>>
  /\ UNCHANGED tokenVars

\* TimerProvider tick (interval or app resume) and the StartButton render and
\* timer-completion effect that follow it
Tick ==
  /\ timerActive
  /\ nowMs # clock
  /\ LET snap == timerSnapshot(clock, startTime, targetTime) IN
     /\ expiredTicks' = IF snap.remaining.ms <= 0 THEN expiredTicks + 1 ELSE expiredTicks
     /\ IF ~TimerEnded(timerActive, snap.remaining.ms, handledTimerEndRef)
       THEN /\ nowMs' = clock
            /\ memoHl' = status.highlightedTaskId
            /\ UNCHANGED <<status, startTime, targetTime, timerActive, notifVars, summaryVars,
                           handledTimerEndRef, alertVars, timerEndRuns>>
       ELSE IF status.highlightedTaskId # Null
         THEN /\ Len(alerts) < MaxAlerts
              /\ nowMs' = clock
              /\ memoHl' = status.highlightedTaskId
              /\ handledTimerEndRef' = TRUE
              /\ alerts' = Append(alerts, AlertRec("DidYouComplete", status.highlightedTaskId,
                                                   snap.elapsed.timeString, tasksCompleted))
              /\ timerEndRuns' = timerEndRuns + 1
              /\ UNCHANGED <<status, startTime, targetTime, timerActive, notifVars, summaryVars,
                             shownCount>>
         ELSE /\ finishSession(snap.elapsed.timeString, tasksCompleted)
              /\ timerEndRuns' = timerEndRuns + 1
              /\ UNCHANGED <<tasksCompleted, alertVars>>
  /\ UNCHANGED <<clock, syncVars>>
  /\ UNCHANGED tokenVars

\* handleStartPress, timer not active: start a session
Start ==
  /\ UIEnabled
  /\ ~timerActive
  /\ handledTimerEndRef' = FALSE
  /\ setTimer
  /\ status' = StatusRec(RUNNING, Null)
  /\ memoHl' = Null
  /\ timerEndRuns' = 0
  /\ expiredTicks' = 0
  /\ UNCHANGED <<clock, summaryVars, alertVars, syncVars>>
  /\ UNCHANGED tokenVars

\* handleStartPress, timer active: promptEndSession
PromptEndSession ==
  /\ UIEnabled
  /\ timerActive
  /\ Len(alerts) < MaxAlerts
  /\ alerts' = Append(alerts, AlertRec("EndSession", memoHl, timer.elapsed.timeString,
                                       tasksCompleted))
  /\ UNCHANGED <<status, timerVars, notifVars, clock, summaryVars, handledTimerEndRef, memoHl,
                 shownCount, syncVars, histVars>>
  /\ UNCHANGED tokenVars

\* 'Continue Session'
ContinueSession ==
  /\ CanAnswer
  /\ TopAlert.kind = "EndSession"
  /\ alerts' = AlertsAfterAnswer
  /\ shownCount' = shownCount - 1
  /\ UNCHANGED <<status, timerVars, notifVars, clock, summaryVars, handledTimerEndRef, memoHl,
                 syncVars, histVars>>
  /\ UNCHANGED tokenVars

\* 'End Session' of the timer-button prompt
EndSession ==
  /\ CanAnswer
  /\ TopAlert.kind = "EndSession"
  /\ shownCount' = shownCount - 1
  /\ IF TopAlert.hl # Null
       THEN /\ alerts' = Append(AlertsAfterAnswer,
                                AlertRec("DidYouComplete", TopAlert.hl, TopAlert.ts, TopAlert.tc))
            /\ UNCHANGED <<status, timerVars, notifVars, summaryVars, handledTimerEndRef, memoHl>>
       ELSE /\ alerts' = AlertsAfterAnswer
            /\ finishSession(TopAlert.ts, TopAlert.tc)
            /\ UNCHANGED tasksCompleted
  /\ UNCHANGED <<clock, syncVars, histVars>>
  /\ UNCHANGED tokenVars

\* 'Yes!' of 'Did you finish your task?'
DidCompleteYes ==
  /\ CanAnswer
  /\ TopAlert.kind = "DidYouComplete"
  /\ tasksCompleted < MaxCompleted
  /\ alerts' = AlertsAfterAnswer
  /\ shownCount' = shownCount - 1
  /\ onMutate(activeList, TopAlert.hl, TRUE, "button")
  /\ tasksCompleted' = incrementTasksCompleted(tasksCompleted, 1)
  /\ finishSession(TopAlert.ts, TopAlert.tc)
  /\ UNCHANGED <<clock, histVars>>
  /\ UNCHANGED tokenVars

\* 'No' of 'Did you finish your task?'
DidCompleteNo ==
  /\ CanAnswer
  /\ TopAlert.kind = "DidYouComplete"
  /\ alerts' = AlertsAfterAnswer
  /\ shownCount' = shownCount - 1
  /\ finishSession(TopAlert.ts, TopAlert.tc)
  /\ UNCHANGED <<clock, tasksCompleted, syncVars, histVars>>
  /\ UNCHANGED tokenVars

\* Task: the play button
PlayTask(id) ==
  /\ UIEnabled
  /\ Rendered(id)
  /\ ~canShowCheckbox(id)
  /\ ~disabled(id)
  /\ status' = StatusRec(RUNNING, id)
  /\ memoHl' = MemoNext(FALSE, id)
  /\ UNCHANGED <<timerVars, notifVars, clock, summaryVars, handledTimerEndRef, alertVars,
                 syncVars, histVars>>
  /\ UNCHANGED tokenVars

\* Task: handleCheckToggle(nextChecked), nextChecked = !isChecked.  The guard
\* of line 116 also answers a request for a task that shows no checkbox.
HandleCheckToggle(id) ==
  /\ UIEnabled
  /\ Rendered(id)
  /\ IF ~canToggleCompletion(id)
       THEN UNCHANGED <<alertVars, syncVars>>
       ELSE /\ onMutate("L1", id, ~isChecked(id), "task")
            /\ IF highlighted(id) /\ ~isChecked(id)
                 THEN /\ Len(alerts) < MaxAlerts
                      /\ alerts' = Append(alerts, TaskAlert)
                 ELSE alerts' = alerts
            /\ UNCHANGED shownCount
  /\ UNCHANGED <<status, timerVars, notifVars, clock, summaryVars, handledTimerEndRef, memoHl,
                 histVars>>
  /\ UNCHANGED tokenVars

\* 'Continue With Other Tasks' that closes the alert and keeps the highlight
ContinueWithOtherTasksKeepsHighlight ==
  /\ CanAnswer
  /\ TopAlert.kind = "TaskEndSession"
  /\ alerts' = AlertsAfterAnswer
  /\ shownCount' = shownCount - 1
  /\ UNCHANGED <<status, memoHl, timerVars, notifVars, clock, summaryVars, handledTimerEndRef,
                 syncVars, histVars>>
  /\ UNCHANGED tokenVars

\* Task alert: 'Continue With Other Tasks'
ContinueWithOtherTasks ==
  /\ CanAnswer
  /\ TopAlert.kind = "TaskEndSession"
  /\ alerts' = AlertsAfterAnswer
  /\ shownCount' = shownCount - 1
  /\ status' = StatusRec(RUNNING, Null)
  /\ memoHl' = MemoNext(FALSE, Null)
  /\ UNCHANGED <<timerVars, notifVars, clock, summaryVars, handledTimerEndRef, syncVars, histVars>>
  /\ UNCHANGED tokenVars

\* 'End Session' of the task alert that changes the phase and keeps the rest
\* of the status object
TaskEndSessionKeepsHighlight ==
  /\ CanAnswer
  /\ TopAlert.kind = "TaskEndSession"
  /\ alerts' = AlertsAfterAnswer
  /\ shownCount' = shownCount - 1
  /\ status' = StatusRec(IDLE, status.highlightedTaskId)
  /\ memoHl' = MemoNext(FALSE, Null)
  /\ UNCHANGED <<timerVars, notifVars, clock, summaryVars, handledTimerEndRef, syncVars, histVars>>
  /\ UNCHANGED tokenVars

\* Task alert: 'End Session'
TaskEndSession ==
  /\ CanAnswer
  /\ TopAlert.kind = "TaskEndSession"
  /\ alerts' = AlertsAfterAnswer
  /\ shownCount' = shownCount - 1
  /\ status' = StatusRec(IDLE, Null)
  /\ memoHl' = MemoNext(FALSE, Null)
  /\ UNCHANGED <<timerVars, notifVars, clock, summaryVars, handledTimerEndRef, syncVars, histVars>>
  /\ UNCHANGED tokenVars

\* Accomplishment: the LET'S GO!! button
HandleClose ==
  /\ status.status = ACCOMPLISHMENT
  /\ shownCount = 0
  /\ tasksCompleted' = resetTasksCompleted
  /\ status' = StatusRec(IDLE, Null)
  /\ memoHl' = MemoNext(tasksCompleted' # tasksCompleted, Null)
  /\ UNCHANGED <<timerVars, notifVars, clock, completedTimeString, handledTimerEndRef, alertVars,
                 syncVars, histVars>>
  /\ UNCHANGED tokenVars

\* Accomplishment: the modal's onRequestClose (hardware back)
OnRequestClose ==
  /\ status.status = ACCOMPLISHMENT
  /\ shownCount = 0
  /\ status' = StatusRec(IDLE, Null)
  /\ memoHl' = MemoNext(FALSE, Null)
  /\ UNCHANGED <<timerVars, notifVars, clock, summaryVars, handledTimerEndRef, alertVars,
                 syncVars, histVars>>
  /\ UNCHANGED tokenVars

(* ------------------- the ['tasks', L1] query's fetch -------------------- *)
\* the server answers the list request with its state at that moment
FetchServe ==
  /\ fetchState = "sent"
  /\ fetchState' = "resp"
  /\ fetchData' = listTasks(server)
  /\ UNCHANGED <<sessionVars, clock, cache, server, mutations>>
  /\ UNCHANGED tokenVars

\* the response arrives: the query's data is replaced
FetchDone ==
  /\ fetchState = "resp"
  /\ cache' = [cache EXCEPT !["L1"] = Entry(fetchData)]
  /\ fetchState' = "idle"
  /\ fetchData' = {}
  /\ UNCHANGED <<sessionVars, clock, server, mutations>>
  /\ UNCHANGED tokenVars

\* the list request fails: the query keeps its data
FetchFail ==
  /\ fetchState \in {"sent", "resp"}
  /\ fetchState' = "idle"
  /\ fetchData' = {}
  /\ UNCHANGED <<sessionVars, clock, cache, server, mutations>>
  /\ UNCHANGED tokenVars

(* ------------------------ a toggle's mutationFn ------------------------- *)
\* getAccessTokenOrThrow resolves: patchTask is issued
TokenResolve(i) ==
  /\ mutations[i].stage = "token"
  /\ mutations' = [mutations EXCEPT ![i].stage = "patch"]
  /\ UNCHANGED <<sessionVars, clock, cache, server, fetchState, fetchData>>
  /\ UNCHANGED tokenVars

\* the server applies the patch (only list L1 exists there)
PatchApply(i) ==
  /\ mutations[i].stage = "patch"
  /\ mutations[i].list \in RealLists
  /\ server' = [server EXCEPT ![mutations[i].task] = StatusOf(mutations[i].completed)]
  /\ mutations' = [mutations EXCEPT ![i].stage = "applied"]
  /\ UNCHANGED <<sessionVars, clock, cache, fetchState, fetchData>>
  /\ UNCHANGED tokenVars

\* the mutation settles without error: onSettled
SettleSuccess(i) ==
  /\ mutations[i].stage = "applied"
  /\ onSettled(mutations[i].list)
  /\ mutations' = AfterSettle(i)
  /\ UNCHANGED <<sessionVars, clock, cache, server>>
  /\ UNCHANGED tokenVars

\* a failed toggle that also takes the session back to Idle
SettleErrorEndsSession(i) ==
  /\ mutations[i].stage \in {"token", "patch"}
  /\ cache' = onError(cache, mutations[i])
  /\ onSettled(mutations[i].list)
  /\ mutations' = AfterSettle(i)
  /\ status' = StatusRec(IDLE, Null)
  /\ UNCHANGED <<timerVars, notifVars, summaryVars, handledTimerEndRef, memoHl,
                 alertVars, histVars, clock, server>>
  /\ UNCHANGED tokenVars

\* the mutation settles with an error (no token, transport failure, non-2xx):
\* onError, then onSettled
SettleError(i) ==
  /\ mutations[i].stage \in {"token", "patch"}
  /\ cache' = onError(cache, mutations[i])
  /\ onSettled(mutations[i].list)
  /\ mutations' = AfterSettle(i)
  /\ UNCHANGED <<sessionVars, clock, server>>
  /\ UNCHANGED tokenVars

(* ------------------------------ googleToken ----------------------------- *)
\* Each action is one task of the event loop with the promise reactions it
\* sets off.  The reactions to the settled shared promise run in the order
\* they were registered: the await of the caller that created the promise
\* first, so its finally runs before any other code can call again.

\* the finally of a caller that resets the shared promise only after a token
inFlightKeptOnError(result) == IF result = "error" THEN inFlight ELSE NoCall

\* finally { inFlight = null }
finallyInFlight(result) == NoCall

\* the callers once getTokens call p has settled with result
Settled(p, result) ==
  [c \in TokenCallers |->
     IF tokenCallers[c].pc = "await" /\ tokenCallers[c].call = p
       THEN [pc |-> "got", call |-> p, result |-> result]
       ELSE tokenCallers[c]]

\* getAccessTokenOrThrow() is called: if (inFlight) return inFlight; otherwise
\* the shared promise is created, which calls GoogleSignin.getTokens()
GetAccessTokenOrThrow(c) ==
  /\ tokenCallers[c].pc = "out"
  /\ IF inFlight # NoCall
       THEN /\ tokenCallers' = [tokenCallers EXCEPT ![c] =
                                  [pc |-> "await", call |-> inFlight, result |-> "none"]]
            /\ UNCHANGED <<inFlight, getTokensCalls, tokenCallCount>>
       ELSE /\ tokenCallCount < MaxTokenCalls
            /\ tokenCallCount' = tokenCallCount + 1
            /\ inFlight' = tokenCallCount'
            /\ getTokensCalls' = getTokensCalls \cup {tokenCallCount'}
            /\ tokenCallers' = [tokenCallers EXCEPT ![c] =
                                  [pc |-> "await", call |-> tokenCallCount', result |-> "none"]]
  /\ UNCHANGED appVars

\* getTokens() resolves with an access token
GetTokensResolve(p) ==
  /\ p \in getTokensCalls
  /\ getTokensCalls' = getTokensCalls \ {p}
  /\ tokenCallers' = Settled(p, "token")
  /\ inFlight' = finallyInFlight("token")
  /\ UNCHANGED <<tokenCallCount, appVars>>

\* getTokens() resolves without an access token: 'No access token available'
GetTokensEmpty(p) ==
  /\ p \in getTokensCalls
  /\ getTokensCalls' = getTokensCalls \ {p}
  /\ tokenCallers' = Settled(p, "error")
  /\ inFlight' = finallyInFlight("error")
  /\ UNCHANGED <<tokenCallCount, appVars>>

\* getTokens() rejects (no signed-in user, no network)
GetTokensReject(p) ==
  /\ p \in getTokensCalls
  /\ getTokensCalls' = getTokensCalls \ {p}
  /\ tokenCallers' = Settled(p, "error")
  /\ inFlight' = finallyInFlight("error")
  /\ UNCHANGED <<tokenCallCount, appVars>>

\* the caller goes on with the token or with the error
TokenCallerReturns(c) ==
  /\ tokenCallers[c].pc = "got"
  /\ tokenCallers' = [tokenCallers EXCEPT ![c] = Outside]
  /\ UNCHANGED <<inFlight, getTokensCalls, tokenCallCount, appVars>>

Next ==
  \/ PermissionDenied
  \/ AdvanceClock
  \/ ShowAlert
  \/ Tick
  \/ Start
  \/ PromptEndSession
  \/ ContinueSession
  \/ EndSession
  \/ Len(mutations) < MaxPending /\ DidCompleteYes
  \/ DidCompleteNo
  \/ \E id \in Tasks : PlayTask(id)
  \/ \E id \in Tasks : Len(mutations) < MaxPending /\ HandleCheckToggle(id)
  \/ ContinueWithOtherTasks
  \/ TaskEndSession
  \/ HandleClose
  \/ OnRequestClose
  \/ FetchServe
  \/ FetchDone
  \/ FetchFail
  \/ \E i \in DOMAIN mutations : TokenResolve(i)
  \/ \E i \in DOMAIN mutations : PatchApply(i)
  \/ \E i \in DOMAIN mutations : SettleSuccess(i)
  \/ \E i \in DOMAIN mutations : SettleError(i)

Spec == Init /\ [][Next]_vars

\* The synchroniser under load: a session is started and the user only works
\* the checkboxes, with up to MaxPendingSync toggles unsettled at once.
NextSync ==
  \/ PermissionDenied
  \/ Start
  \/ \E id \in Tasks : Len(mutations) < MaxPendingSync /\ HandleCheckToggle(id)
  \/ FetchServe
  \/ FetchDone
  \/ FetchFail
  \/ \E i \in DOMAIN mutations : TokenResolve(i)
  \/ \E i \in DOMAIN mutations : PatchApply(i)
  \/ \E i \in DOMAIN mutations : SettleSuccess(i)
  \/ \E i \in DOMAIN mutations : SettleError(i)

SpecSync == Init /\ [][NextSync]_vars

\* The two callers of the synchroniser together: the user plays tasks, starts
\* sessions and ticks boxes, answers the task prompt with 'End Session' and
\* the expiry prompt with 'Yes!'; toggles fail, with up to MaxPendingSync of
\* them unsettled at once.
NextPrompt ==
  \/ PermissionDenied
  \/ FetchServe
  \/ FetchDone
  \/ AdvanceClock
  \/ ShowAlert
  \/ Tick
  \/ Start
  \/ Len(mutations) < MaxPendingSync /\ DidCompleteYes
  \/ \E id \in Tasks : PlayTask(id)
  \/ \E id \in Tasks : Len(mutations) < MaxPendingSync /\ HandleCheckToggle(id)
  \/ TaskEndSession
  \/ \E i \in DOMAIN mutations : SettleError(i)

SpecPrompt == Init /\ [][NextPrompt]_vars

\* The timer engine and its notification on a device where notifications are
\* permitted, under a user who starts and ends sessions, with up to
\* MaxScheduling schedule() calls on their way.
NextNotif ==
  \/ PermissionGranted
  \/ FetchServe
  \/ FetchDone
  \/ FetchFail
  \/ Len(scheduling) < MaxScheduling /\ Start
  \/ AdvanceClock
  \/ Tick
  \/ PromptEndSession
  \/ ShowAlert
  \/ ContinueSession
  \/ EndSession
  \/ \E i \in DOMAIN scheduling : OsSchedule(i)
  \/ \E i \in DOMAIN scheduling : ScheduleReturn(i)
  \/ \E i \in DOMAIN scheduling : ScheduleFail(i)

SpecNotif == Init /\ [][NextNotif]_vars

\* The token source on its own: the queryFn and the mutationFns call
\* getAccessTokenOrThrow whenever they run, in any interleaving with the
\* answers of GoogleSignin.getTokens().
NextToken ==
  \/ \E c \in TokenCallers : GetAccessTokenOrThrow(c)
  \/ \E p \in 1..MaxTokenCalls : GetTokensResolve(p)
  \/ \E p \in 1..MaxTokenCalls : GetTokensEmpty(p)
  \/ \E p \in 1..MaxTokenCalls : GetTokensReject(p)
  \/ \E c \in TokenCallers : TokenCallerReturns(c)

SpecToken == Init /\ [][NextToken]_vars

\* What the platform does by itself is done eventually: the clock moves, the
\* one-second interval of an active timer ticks, a requested dialog gets
\* presented.  User actions and the network carry no fairness.
SpecLive ==
  /\ Spec
  /\ WF_vars(AdvanceClock)
  /\ WF_vars(Tick)
  /\ WF_vars(ShowAlert)

(* ============================== properties ============================== *)
\* the status a cache entry shows for task t ("none": no entry, or t not in it)
cachedStatus(entry, t) ==
  IF entry.present /\ \E r \in entry.items : r.id = t
    THEN (CHOOSE r \in entry.items : r.id = t).status
    ELSE "none"

\* a step in which toggleComplete.mutate was called for task t
ToggleIssued(t) ==
  /\ Len(mutations') = Len(mutations) + 1
  /\ mutations'[Len(mutations')].task = t

\* a step in which the user confirmed a completion (the toggle asks for
\* status completed)
CompletionConfirmed ==
  /\ Len(mutations') = Len(mutations) + 1
  /\ mutations'[Len(mutations')].completed

\* C1: within one session the timer-expiry branch (end the session, or open
\* the 'Did you finish your task?' prompt) has run exactly once if any
\* refresh of the session has observed remaining.ms <= 0, however many did,
\* and not at all otherwise; while the expired timer is still active the
\* latch is set.
C1_ExpiryHandledOnce ==
  /\ timerEndRuns = (IF expiredTicks > 0 THEN 1 ELSE 0)
  /\ (timerActive /\ timer.remaining.ms <= 0) => handledTimerEndRef

\* C1 witness: the expiry was handled, the timer is still active (the prompt
\* is open) and a second refresh has observed remaining.ms <= 0.
C1_TickAfterHandledExpiry ==
  /\ timerActive
  /\ timerEndRuns = 1
  /\ expiredTicks >= 2

\* C2: while a toggle to completed on list L1 has not settled, the cache of
\* L1 shows its task as completed.
C2_OptimisticValueStays ==
  \A i \in DOMAIN mutations :
    (mutations[i].list = "L1" /\ mutations[i].completed)
      => (Rendered(mutations[i].task) /\ taskStatus(mutations[i].task) = Completed)

\* C3: a toggle that settles with an error leaves its list's cache entry
\* exactly as it was before that toggle's optimistic write, whatever that
\* was (a collection, an empty collection, or no entry at all).
C3_RollbackRestoresPrior ==
  [][\A i \in DOMAIN mutations :
       SettleError(i) => cache'[mutations[i].list] = mutations[i].prev]_vars

\* C4: when the phase leaves Running, the next phase is Idle if tasksCompleted
\* (counting a completion confirmed in that very step) is 0 and Accomplishment
\* if it is at least 1.
C4_EndPhaseFollowsCount ==
  [][(status.status = RUNNING /\ status'.status # RUNNING)
       => status'.status = (IF tasksCompleted' = 0 THEN IDLE ELSE ACCOMPLISHMENT)]_vars

\* C5: a running session whose timer has expired naturally (the wall clock has
\* reached targetTime while the timer is active) eventually gets to phase
\* Accomplishment.  The statement is about the session that expired: it is not
\* held against a session the user ends by hand before the timer-completion
\* effect has run (phase Idle with timerEndRuns = 0), and it is judged before
\* a later session is under way (phase Running with the clock short of
\* targetTime).
C5_ExpiryLeadsToAccomplishment ==
  (status.status = RUNNING /\ timerActive /\ clock >= targetTime)
    ~> (\/ status.status = ACCOMPLISHMENT
        \/ status.status = IDLE /\ timerEndRuns = 0
        \/ status.status = RUNNING /\ timerActive /\ clock < targetTime)

\* C6: a toggle is issued for a task only in phase Running with the highlight
\* null or equal to that task; in particular a request for A in Running(B),
\* A # B, writes nothing to the cache and sends nothing.
C6_ToggleOnlyWhenAllowed ==
  [][\A t \in Tasks :
       ToggleIssued(t) => /\ status.status = RUNNING
                          /\ status.highlightedTaskId \in {Null, t}]_vars

\* C7: every completion the user confirms in phase Running raises
\* tasksCompleted by exactly 1.
C7_ConfirmedCompletionCounts ==
  [][(status.status = RUNNING /\ CompletionConfirmed)
       => tasksCompleted' = tasksCompleted + 1]_vars

\* C8: every step from phase Accomplishment to phase Idle leaves
\* tasksCompleted at 0.
C8_DismissalResets ==
  [][(status.status = ACCOMPLISHMENT /\ status'.status = IDLE)
       => tasksCompleted' = 0]_vars

\* C9: tasksCompleted does not decrease in phase Running, does not change
\* while the phase stays Accomplishment, and is lowered only by the step that
\* dismisses the accomplishment screen.
C9_CountMonotone ==
  [][/\ status.status = RUNNING => tasksCompleted' >= tasksCompleted
     /\ (status.status = ACCOMPLISHMENT /\ status'.status = ACCOMPLISHMENT)
          => tasksCompleted' = tasksCompleted
     /\ tasksCompleted' < tasksCompleted
          => (status.status = ACCOMPLISHMENT /\ status'.status = IDLE)]_vars

\* C10: at every start action (the timer is set and the phase goes from Idle
\* to Running) tasksCompleted is 0.
C10_StartsFromZero ==
  [][(status.status = IDLE /\ ~timerActive /\ timerActive')
       => tasksCompleted = 0]_vars

\* C11: the timer is active exactly when startTime and targetTime are both
\* set, and startTime and targetTime are never set one without the other.
C11_ActiveIffBothSet ==
  /\ timerActive <=> (startTime # NoTime /\ targetTime # NoTime)
  /\ startTime = NoTime <=> targetTime = NoTime

\* C11 witness: a timer set again after an earlier one was cleared (the clock
\* only moves while a timer is set, so a start time after 0 is a later timer).
C11_TimerSetAfterClear ==
  /\ timerActive
  /\ startTime > 0
  /\ targetTime = startTime + durationInMs

\* C12: every refresh of a set timer (setTimer itself, or a tick at wall-clock
\* time T0 + delta) leaves a snapshot with elapsed.ms = delta and raw
\* remaining.ms = D - delta, negative once expired, and with the displayed
\* minutes, seconds and MM:SS string of the remaining time computed from
\* max(0, D - delta); the snapshot depends on the wall clock of the refresh
\* only, not on how many refreshes came before it.
C12_SnapshotFromWallClock ==
  [][(timerActive' /\ (nowMs' # nowMs \/ ~timerActive))
       => LET snap  == timerSnapshot(nowMs', startTime', targetTime')
              delta == clock' - startTime'
              shown == Max(0, durationInMs - delta)
          IN /\ snap.elapsed.ms = delta
             /\ snap.remaining.ms = durationInMs - delta
             /\ snap.remaining.minutes = shown \div 60000
             /\ snap.remaining.seconds = (shown % 60000) \div 1000
             /\ snap.remaining.timeString
                  = formatTime(shown \div 60000, (shown % 60000) \div 1000)]_vars

\* C12 witness: the refresh at T0 + D was skipped (only one refresh of the
\* session has seen the timer expired) and the snapshot was taken at
\* T0 + D + StepMs, with a negative raw remaining time.
C12_RefreshAfterSkippedTick ==
  /\ timerActive
  /\ expiredTicks = 1
  /\ nowMs = startTime + durationInMs + StepMs
  /\ timer.remaining.ms < 0

\* C13: at most one timer notification is pending at any time, none is pending
\* while the timer is inactive (after clearTimer no notification of the
\* cleared timer remains), and while a timer is set the only pending
\* notification is the one for its targetTime, whenever the schedule() calls
\* complete.
C13_NotificationFollowsTimer ==
  /\ Cardinality(notifs) <= 1
  /\ ~timerActive => notifs = {}
  /\ \A n \in notifs : n.target = targetTime

\* C14: when two toggles on the same list are unsettled and one of them fails,
\* its rollback leaves the list's cache entry as it was just before the latest
\* optimistic write on that list (the snapshot of the toggle issued last).
C14_RollbackToLatestSnapshot ==
  [][\A i \in DOMAIN mutations :
       (/\ Len(mutations) = 2
        /\ mutations[1].list = mutations[2].list
        /\ SettleError(i))
         => cache'[mutations[i].list] = mutations[Len(mutations)].prev]_vars

\* C15: the step that calls a toggle writes the optimistic value to the cache
\* and issues no patch yet (the toggle still waits for its token and the
\* server is untouched); and the rollback of a failed toggle never comes after
\* the invalidation triggered by a later toggle on the same task.
C15_WriteBeforePatchRollbackBeforeInvalidation ==
  [][/\ \A t \in Tasks :
          ToggleIssued(t)
            => LET m == mutations'[Len(mutations')]
               IN /\ m.stage = "token"
                  /\ server' = server
                  /\ cache'[m.list] = optimisticUpdate(cache[m.list], t, m.completed)
     /\ \A i \in DOMAIN mutations :
          SettleError(i) => ~mutations[i].overtaken]_vars

\* C16: every toggle on a fetched list that settles, with or without an
\* error, invalidates the list's cache entry (a refetch is sent); and when a
\* refetch completes with no toggle unsettled, the cached collection of the
\* list is the server's.
C16_SettleInvalidatesAndReconciles ==
  [][/\ \A i \in DOMAIN mutations :
          ((SettleSuccess(i) \/ SettleError(i)) /\ mutations[i].list \in RealLists)
            => (fetchState' = "sent" /\ fetchData' = {})
     /\ (FetchDone /\ mutations = <<>>)
          => cache'["L1"] = Entry(listTasks(server'))]_vars

\* C16 witness: a task was completed on the server, every toggle has settled,
\* the refetch has completed and the cache shows the server's collection.
C16_ReconciledAfterToggle ==
  /\ mutations = <<>>
  /\ fetchState = "idle"
  /\ \E t \in Tasks : server[t] = Completed
  /\ cache["L1"] = Entry(listTasks(server))

\* C17: the step that handles a failed toggle leaves the session phase, the
\* highlighted task and the timer state (startTime, targetTime, timerActive)
\* as they were, and changes no cache entry but that of the toggle's list.
C17_FailedToggleFrame ==
  [][\A i \in DOMAIN mutations :
       SettleError(i)
         => /\ UNCHANGED <<status, startTime, targetTime, timerActive>>
            /\ \A l \in ListIds \ {mutations[i].list} : cache'[l] = cache[l]]_vars

\* C17 witness: in a session with a highlighted task and the timer running,
\* the toggle of that task has failed and its rollback is in the cache (the
\* server never saw the completion, the refetch is sent).
C17_FailedToggleInSession ==
  /\ status = StatusRec(RUNNING, "A")
  /\ timerActive
  /\ mutations = <<>>
  /\ fetchState = "sent"
  /\ server["A"] = NeedsAction
  /\ Rendered("A") /\ taskStatus("A") = NeedsAction
  /\ TaskAlert \in Range(alerts)

\* C18: a session the timer expiry has ended is not ended again: once the
\* expiry branch has run and the timer is cleared, the answer to an
\* end-of-session prompt (one opened before the expiry included) changes
\* neither the phase nor the summary.
C18_SessionEndedOnce ==
  [][(/\ timerEndRuns = 1
      /\ ~timerActive
      /\ EndSession \/ DidCompleteYes \/ DidCompleteNo)
       => UNCHANGED <<status, tasksCompleted, completedTimeString>>]_vars

\* C19: whenever the phase is Running, with or without a highlighted task, the
\* timer is active.
C19_RunningHasTimer ==
  status.status = RUNNING => timerActive

\* C20: a highlighted task appears only by a step from Running(null) (playing
\* that task), and the only step out of Idle leads to Running(null).
C20_HighlightOnlyFromRunningNull ==
  [][/\ (status'.highlightedTaskId # Null /\ status' # status)
          => status = StatusRec(RUNNING, Null)
     /\ (status.status = IDLE /\ status' # status)
          => status' = StatusRec(RUNNING, Null)]_vars

\* C21: while the phase is Running with task t highlighted, a press on the
\* play button or on the checkbox of any other task u changes neither the
\* phase nor the highlight and issues no toggle: u is neither played nor
\* toggled.
C21_OtherTasksLocked ==
  [][\A u \in Tasks :
       (/\ status.status = RUNNING
        /\ status.highlightedTaskId \notin {Null, u}
        /\ PlayTask(u) \/ HandleCheckToggle(u))
         => UNCHANGED <<status, cache, mutations>>]_vars

\* C21 witness: task A is highlighted in a running session while task B is
\* on screen and the screen takes touches, so B's controls can be pressed.
C21_OtherTaskOnScreen ==
  /\ status = StatusRec(RUNNING, "A")
  /\ Rendered("B")
  /\ UIEnabled

C23_SummaryIsElapsedAtEnd ==
  [][(/\ timerActive
      /\ status.status # ACCOMPLISHMENT
      /\ status'.status = ACCOMPLISHMENT)
       => completedTimeString' = makeTimeObject(clock - startTime).timeString]_vars

\* C24: the timer-expiry branch (end the session, or open the 'Did you finish
\* your task?' prompt) runs only in a step that finds the timer active and the
\* remaining time at or below zero, never while time remains or the timer is
\* inactive; a refresh that finds the remaining time at exactly zero or below
\* it, with the latch unset, does run it.
C24_TimeoutOnlyWhenExpired ==
  [][/\ (timerEndRuns' = timerEndRuns + 1)
          => (timerActive /\ targetTime - clock <= 0)
     /\ (Tick /\ targetTime - clock <= 0 /\ ~handledTimerEndRef)
          => timerEndRuns' = timerEndRuns + 1]_vars

\* C24 witness: the expiry branch has run on a reading of exactly zero
\* remaining (the prompt for the highlighted task is requested, the timer is
\* still set).
C24_ExpiredAtExactlyZero ==
  /\ timerActive
  /\ timerEndRuns = 1
  /\ nowMs = clock
  /\ targetTime - clock = 0
  /\ timer.remaining.ms = 0

C26_PhaseWellFormed ==
  /\ status.status = IDLE
  /\ [](/\ status.status \in {IDLE, RUNNING, ACCOMPLISHMENT}
        /\ status.highlightedTaskId # Null => status.status = RUNNING)

\* C26 witness: a session with a highlighted task has gone through Running
\* and ended in Accomplishment, the highlight gone.
C26_AccomplishmentAfterHighlight ==
  /\ status = StatusRec(ACCOMPLISHMENT, Null)
  /\ cache[Null].present
  /\ completedTimeString # ""

\* C27: in every interleaving of callers of getAccessTokenOrThrow at most one
\* GoogleSignin.getTokens() call is outstanding; a caller that arrives while
\* one is outstanding starts none and waits for that one, and all its waiters
\* get its one result, token or error; a caller that arrives when none is
\* outstanding (the last one having settled, with an error included) starts a
\* fresh call.
C27_OneTokenCallShared ==
  [][/\ Cardinality(getTokensCalls') <= 1
     /\ \A c \in TokenCallers :
          tokenCallers'[c].pc = "await" => tokenCallers'[c].call \in getTokensCalls'
     /\ \A c \in TokenCallers :
          GetAccessTokenOrThrow(c)
            => IF getTokensCalls # {}
                 THEN /\ getTokensCalls' = getTokensCalls
                      /\ tokenCallers'[c].call \in getTokensCalls
                 ELSE /\ getTokensCalls' = {tokenCallCount + 1}
                      /\ tokenCallers'[c].call = tokenCallCount + 1
     /\ \A c, d \in TokenCallers :
          (/\ tokenCallers[c].pc = "await" /\ tokenCallers[d].pc = "await"
           /\ tokenCallers'[c].pc = "got")
            => (tokenCallers'[d].pc = "got"
                /\ tokenCallers'[d].result = tokenCallers'[c].result)]_vars

\* C27 witness: the first getTokens call has failed and one caller holds its
\* error; the next caller has started a second call, and a third caller that
\* arrived meanwhile waits for that same call.
C27_SharedCallAfterError ==
  /\ tokenCallers["queryFn"] = [pc |-> "got", call |-> 1, result |-> "error"]
  /\ tokenCallers["toggle1"] = [pc |-> "await", call |-> 2, result |-> "none"]
  /\ tokenCallers["toggle2"] = [pc |-> "await", call |-> 2, result |-> "none"]
  /\ getTokensCalls = {2}

\* C28: the rollback of a failed toggle leaves the cached status of every
\* other task of the list as it was just before the rollback, a task with an
\* unsettled toggle of its own included.
C28_RollbackKeepsOtherTasks ==
  [][\A i \in DOMAIN mutations :
       SettleError(i)
         => \A b \in Tasks \ {mutations[i].task} :
              cachedStatus(cache'[mutations[i].list], b)
                = cachedStatus(cache[mutations[i].list], b)]_vars

\* C29: the arrival of a refetched list never replaces the optimistic value
\* of an unsettled toggle: a task that shows the status its unsettled toggle
\* asked for still shows it after the refetch has written its data.
C29_RefetchKeepsOptimisticValue ==
  [][FetchDone
       => \A i \in DOMAIN mutations :
            (/\ mutations[i].list = "L1"
             /\ cachedStatus(cache["L1"], mutations[i].task) = StatusOf(mutations[i].completed))
              => cachedStatus(cache'["L1"], mutations[i].task)
                   = StatusOf(mutations[i].completed)]_vars

\* C30: whenever the timer is active the phase is Running.
C30_ActiveTimerMeansRunning ==
  timerActive => status.status = RUNNING

====
